---- MODULE Spec2Model ----
(***************************************************************************)
(* Message logging of the WhatsApp web server (server.js): the 'message'   *)
(* handler with its group match and logGroupMessage, the log directory as  *)
(* a map from paths to file contents, and the two query routes             *)
(* /api/logging-status and /api/logs/:filename.                            *)
(*                                                                         *)
(* A JavaScript string is a sequence of one-character strings, so that     *)
(* toLowerCase, trim, replace, startsWith, split and path.join are         *)
(* computed character by character as the code computes them.              *)
(***************************************************************************)
EXTENDS Integers, Sequences, FiniteSets, TLC

(***************************************************************************)
(* Bounds of the model.                                                    *)
(***************************************************************************)
\* number of inbound 'message' events of a run
MaxMsgs == 2
\* the clock runs over the instants 0..MaxClock
MaxClock == 2
\* the attempts a call of the summarization engine or of the notification
\* channel is given before its transient failures count as final
MaxAttempts == 2

\* the events and clicks one page handles
MaxEvents == 3

\* the browser sockets that connect, the requests they make, and the
\* continuations of one kind the WhatsApp client's handlers have pending
MaxSockets == 2
MaxRequests == 2
MaxAwaited == 1

(***************************************************************************)
(* Characters and the string functions of JavaScript the code uses.        *)
(***************************************************************************)
UpperCase == <<"A","B","C","D","E","F","G","H","I","J","K","L","M",
               "N","O","P","Q","R","S","T","U","V","W","X","Y","Z">>
LowerCase == <<"a","b","c","d","e","f","g","h","i","j","k","l","m",
               "n","o","p","q","r","s","t","u","v","w","x","y","z">>
Digits == <<"0","1","2","3","4","5","6","7","8","9">>

\* the characters \s of a regular expression and of String.prototype.trim
WhiteSpace == {" ", "\n", "\t"}

Range(s) == {s[i] : i \in 1..Len(s)}

\* the character class [a-z0-9]
AlphaNum == Range(LowerCase) \cup Range(Digits)

LowerChar(c) ==
    IF \E i \in 1..26 : UpperCase[i] = c
    THEN LowerCase[CHOOSE i \in 1..26 : UpperCase[i] = c]
    ELSE c

\* String.prototype.toLowerCase
toLowerCase(s) == [i \in 1..Len(s) |-> LowerChar(s[i])]

\* String.prototype.trim: drops the leading and the trailing white space
trim(s) ==
    LET keep == {i \in 1..Len(s) : s[i] \notin WhiteSpace}
    IN  IF keep = {} THEN <<>>
        ELSE LET lo == CHOOSE i \in keep : \A j \in keep : i <= j
                 hi == CHOOSE i \in keep : \A j \in keep : j <= i
             IN  SubSeq(s, lo, hi)

\* s.replace(/[^a-z0-9\s]/g, ''): keeps a-z, 0-9 and white space
StripSpecial(s) == SelectSeq(s, LAMBDA c : c \in AlphaNum \cup WhiteSpace)

\* s.replace(/\s+/g, '-'): every maximal run of white space becomes one hyphen
RECURSIVE HyphenateSpaces(_)
HyphenateSpaces(s) ==
    IF s = <<>> THEN <<>>
    ELSE IF Head(s) \in WhiteSpace
         THEN IF Len(s) > 1 /\ s[2] \in WhiteSpace
              THEN HyphenateSpaces(Tail(s))
              ELSE <<"-">> \o HyphenateSpaces(Tail(s))
         ELSE <<Head(s)>> \o HyphenateSpaces(Tail(s))

\* String.prototype.startsWith and endsWith
startsWith(s, p) == Len(p) <= Len(s) /\ SubSeq(s, 1, Len(p)) = p
endsWith(s, p) == Len(p) <= Len(s) /\ SubSeq(s, Len(s) - Len(p) + 1, Len(s)) = p

\* String.prototype.includes
includes(s, p) ==
    \E i \in 0..(Len(s) - Len(p)) : SubSeq(s, i + 1, i + Len(p)) = p

\* s.split(sep) for a one-character separator: the pieces between separators
RECURSIVE split(_, _)
split(s, sep) ==
    IF \A i \in 1..Len(s) : s[i] # sep THEN <<s>>
    ELSE LET k == CHOOSE i \in 1..Len(s) :
                      s[i] = sep /\ \A j \in 1..(i - 1) : s[j] # sep
         IN  <<SubSeq(s, 1, k - 1)>> \o split(SubSeq(s, k + 1, Len(s)), sep)

\* pieces.join(sep)
RECURSIVE join(_, _)
join(pieces, sep) ==
    IF pieces = <<>> THEN <<>>
    ELSE IF Len(pieces) = 1 THEN pieces[1]
    ELSE pieces[1] \o <<sep>> \o join(Tail(pieces), sep)

\* the concatenation of a sequence of strings
RECURSIVE Concat(_)
Concat(ss) == IF ss = <<>> THEN <<>> ELSE Head(ss) \o Concat(Tail(ss))

(***************************************************************************)
(* Configuration.                                                          *)
(***************************************************************************)
TARGET_GROUP_NAMES ==
    << <<"r","e","t","a","i","l"," ","a","l","l","-","s","t","a","r","s">>,
       <<"S","e","e","d","s","+","C","u","s","t","o","m","e","r"," ",
         "S","u","p","p","o","r","t">>,
       <<"W","i","n","w","i","s","e"," ","A","g","e","n","t"," ",
         "S","u","p","p","o","r","t">>,
       <<"M","e","r","c","h","a","n","t"," ","A","c","q","u","i","s","i","t",
         "i","o","n","_","P","a","y","b","o","x">> >>

\* __dirname, the directory server.js is installed in
DirName == <<"/","a","p","p">>

\* the loop of path.normalize over the segments: '..' drops the segment before
\* it, and above the root of an absolute path it is dropped itself
RECURSIVE ResolveDots(_, _, _)
ResolveDots(segs, acc, isAbsolute) ==
    IF segs = <<>> THEN acc
    ELSE IF Head(segs) = <<".", ".">>
         THEN IF acc # <<>> /\ acc[Len(acc)] # <<".", ".">>
              THEN ResolveDots(Tail(segs), SubSeq(acc, 1, Len(acc) - 1), isAbsolute)
              ELSE IF isAbsolute
                   THEN ResolveDots(Tail(segs), acc, isAbsolute)
                   ELSE ResolveDots(Tail(segs), Append(acc, Head(segs)), isAbsolute)
         ELSE ResolveDots(Tail(segs), Append(acc, Head(segs)), isAbsolute)

\* path.normalize (POSIX): empty and '.' segments go, '..' segments are resolved
pathNormalize(p) ==
    LET isAbsolute == p # <<>> /\ p[1] = "/"
        segs == SelectSeq(split(p, "/"), LAMBDA s : s # <<>> /\ s # <<".">>)
        body == join(ResolveDots(segs, <<>>, isAbsolute), "/")
        tail == IF body # <<>> /\ p[Len(p)] = "/" THEN <<"/">> ELSE <<>>
    IN  IF isAbsolute THEN <<"/">> \o body \o tail
        ELSE IF body = <<>> THEN <<".">> ELSE body \o tail

\* path.join(a, b): normalize(a + '/' + b)
pathJoin(a, b) == pathNormalize(a \o <<"/">> \o b)

\* path.join(__dirname, 'message-logs')
LOG_DIRECTORY == pathJoin(DirName, <<"m","e","s","s","a","g","e","-","l","o","g","s">>)

MessagesInfix == <<"-","m","e","s","s","a","g","e","s","-">>
TxtSuffix == <<".","t","x","t">>

(***************************************************************************)
(* The clock: an instant is a number of half days since the first instant. *)
(***************************************************************************)
TwoDigits(n) == <<Digits[(n \div 10) + 1], Digits[(n % 10) + 1]>>

\* Date.prototype.toISOString: YYYY-MM-DDTHH:mm:ss.sssZ in UTC, the instant 0
\* being 2025-09-26T00:00:00.000Z and two instants twelve hours apart
toISOString(t) ==
    <<"2","0","2","5","-","0","9","-">> \o TwoDigits(26 + ((12 * t) \div 24))
        \o <<"T">> \o TwoDigits((12 * t) % 24)
        \o <<":","0","0",":","0","0",".","0","0","0","Z">>

\* getDateString: new Date().toISOString().split('T')[0]
getDateString(t) == split(toISOString(t), "T")[1]

\* getTimestamp: new Date().toISOString()
getTimestamp(t) == toISOString(t)

(***************************************************************************)
(* The 'message' handler's match and logGroupMessage's file name.          *)
(***************************************************************************)
\* the file-name part of a group name (logGroupMessage and both routes)
groupNameForFile(name) == trim(HyphenateSpaces(StripSpecial(toLowerCase(name))))

\* `${groupNameForFile}-messages-${dateString}.txt`
LogFileName(name, dateString) ==
    groupNameForFile(name) \o MessagesInfix \o dateString \o TxtSuffix

\* TARGET_GROUP_NAMES.map(name => name.toLowerCase().trim())
targetGroupNames ==
    [i \in 1..Len(TARGET_GROUP_NAMES) |-> trim(toLowerCase(TARGET_GROUP_NAMES[i]))]

\* the test gone wrong: a configured name found anywhere in the chat's name
IsTargetGroupChatBySubstring(chat) ==
    /\ chat.isGroup
    /\ chat.name # <<>>
    /\ \E g \in 1..Len(targetGroupNames) :
          includes(trim(toLowerCase(chat.name)), targetGroupNames[g])

\* the test gone wrong: chat.isGroup is not asked for
IsTargetChatOfAnyKind(chat) ==
    /\ chat.name # <<>>
    /\ trim(toLowerCase(chat.name)) \in Range(targetGroupNames)

\* the handler's test: chat.isGroup && chat.name && targetGroupNames.includes(groupName)
IsTargetGroupChat(chat) ==
    /\ chat.isGroup
    /\ chat.name # <<>>
    /\ trim(toLowerCase(chat.name)) \in Range(targetGroupNames)

(***************************************************************************)
(* Inbound messages: the chat, the contact and the body of a 'message'    *)
(* event.  An absent or empty JavaScript string is the empty sequence.     *)
(***************************************************************************)
Jane == [name |-> <<"J","a","n","e">>, pushname |-> <<"J">>, number |-> <<"1">>]
PushOnly == [name |-> <<>>, pushname |-> <<"B","o">>, number |-> <<"2">>]

Hello == <<"h","e","l","l","o">>
TwoLines == <<"a","\n","b">>

RetailAllStars == TARGET_GROUP_NAMES[1]

Inbound ==
    { \* the configured group, named as configured
      [chat |-> [name |-> RetailAllStars, isGroup |-> TRUE],
       contact |-> Jane, body |-> Hello],
      \* the configured group, a body of two lines
      [chat |-> [name |-> RetailAllStars, isGroup |-> TRUE],
       contact |-> PushOnly, body |-> TwoLines],
      \* the configured group in another case and with white space around,
      \* a body of two lines
      [chat |-> [name |-> <<" ","R","e","t","a","i","l"," ","A","L","L","-",
                            "S","t","a","r","s"," ">>, isGroup |-> TRUE],
       contact |-> PushOnly, body |-> TwoLines],
      \* a chat with one contact that bears a configured name
      [chat |-> [name |-> RetailAllStars, isGroup |-> FALSE],
       contact |-> Jane, body |-> Hello],
      \* a group whose name is contained in a configured name
      [chat |-> [name |-> <<"r","e","t","a","i","l">>, isGroup |-> TRUE],
       contact |-> Jane, body |-> Hello],
      \* a group without a name
      [chat |-> [name |-> <<>>, isGroup |-> TRUE],
       contact |-> PushOnly, body |-> Hello] }

(***************************************************************************)
(* logGroupMessage.                                                        *)
(***************************************************************************)
\* the first truthy of a list of strings, the last when none is
RECURSIVE FirstTruthy(_)
FirstTruthy(ss) ==
    IF Len(ss) = 1 \/ Head(ss) # <<>> THEN Head(ss) ELSE FirstTruthy(Tail(ss))

\* the sender gone wrong: the push name is passed over
senderNameWithoutPushname(contact) ==
    FirstTruthy(<<contact.name, contact.number, <<"U","n","k","n","o","w","n">> >>)

\* contact.name || contact.pushname || contact.number || 'Unknown'
senderName(contact) ==
    FirstTruthy(<<contact.name, contact.pushname, contact.number,
                  <<"U","n","k","n","o","w","n">> >>)

\* messageData.body || '[No text content]'
messageContent(body) ==
    FirstTruthy(<<body, <<"[","N","o"," ","t","e","x","t"," ",
                          "c","o","n","t","e","n","t","]">> >>)

\* `[${timestamp}] ${senderName}: ${messageContent}\n`
logEntry(timestamp, sender, content) ==
    <<"[">> \o timestamp \o <<"]", " ">> \o sender \o <<":", " ">> \o content \o <<"\n">>

\* path.join(LOG_DIRECTORY, filename) of logGroupMessage
LogFilePath(chatName, dateString) ==
    pathJoin(LOG_DIRECTORY, LogFileName(chatName, dateString))

\* logGroupMessage gone wrong: the error of a failed append is thrown on
logGroupMessageRethrows(appended) == IF appended THEN "true" ELSE "throw"

\* what logGroupMessage gives its caller: true after the append, false from its
\* catch block when the append failed
logGroupMessageReturn(appended) == IF appended THEN "true" ELSE "false"

\* where the handler is after logGroupMessage: both results are only printed
\* and the handler runs on to io.emit; an exception would reject the handler
AfterLog(ret) == IF ret \in {"true", "false"} THEN "done" ELSE "rejected"

(***************************************************************************)
(* The file system: a map from the paths of the existing files to their    *)
(* content (the data of the writes made, in order) and times.              *)
(***************************************************************************)
\* the append gone wrong: fs.writeFile, which replaces the data
OverwriteData(writes, w) == <<w>>

\* the data of a file after fs.appendFile has written w to it
AppendData(writes, w) == Append(writes, w)

\* fs.appendFile(path, text): opens with flag 'a' (creating the file) and writes
\* the text at the end
appendFile(fs, path, w, now) ==
    IF path \in DOMAIN fs
    THEN [fs EXCEPT ![path] = [@ EXCEPT !.writes = AppendData(@, w), !.mtime = now]]
    ELSE [p \in DOMAIN fs \cup {path} |->
            IF p = path
            THEN [writes |-> AppendData(<<>>, w), birthtime |-> now, mtime |-> now]
            ELSE fs[p]]

\* fs.appendFile whose write fails after its open succeeded (a full disk): the
\* file exists afterwards, no data was added
openForAppend(fs, path, now) ==
    IF path \in DOMAIN fs THEN fs
    ELSE [p \in DOMAIN fs \cup {path} |->
            IF p = path
            THEN [writes |-> <<>>, birthtime |-> now, mtime |-> now]
            ELSE fs[p]]

\* the text of a file
Content(file) == Concat([k \in 1..Len(file.writes) |-> file.writes[k].text])

\* a file outside the log directory, beside it
NotesPath == pathJoin(DirName, <<"n","o","t","e","s",".","t","x","t">>)

(***************************************************************************)
(* The query routes.                                                       *)
(***************************************************************************)
\* content.split('\n').filter(line => line.trim()).length
CountLines(content) ==
    Len(SelectSeq(split(content, "\n"), LAMBDA line : trim(line) # <<>>))

\* `${groupNameForFile}-messages-` of every target group, as both routes
\* compute it from TARGET_GROUP_NAMES
TargetFilePrefixes ==
    [g \in 1..Len(TARGET_GROUP_NAMES) |->
        groupNameForFile(TARGET_GROUP_NAMES[g]) \o MessagesInfix]

\* the security check gone wrong: only the ending is looked at
isTextFileName(filename) == endsWith(filename, TxtSuffix)

\* the security check of /api/logs/:filename: the name starts with the
\* file-name part of some target group and '-messages-', and ends with '.txt'
isValidLogFile(filename) ==
    \E g \in 1..Len(TARGET_GROUP_NAMES) :
        /\ startsWith(filename, TargetFilePrefixes[g])
        /\ endsWith(filename, TxtSuffix)

\* the filter of /api/logging-status over the names of the directory
isTargetLogFile(file) ==
    \E g \in 1..Len(TARGET_GROUP_NAMES) : startsWith(file, TargetFilePrefixes[g])

\* fs.readdir(LOG_DIRECTORY): the names of the files directly in the directory
readdir(fs, dir) ==
    {SubSeq(p, Len(dir) + 2, Len(p)) :
        p \in {q \in DOMAIN fs :
                 /\ startsWith(q, dir \o <<"/">>)
                 /\ \A k \in (Len(dir) + 2)..Len(q) : q[k] # "/"}}

\* one entry of fileStats: fs.stat and fs.readFile of a log file
FileStat(fs, filename) ==
    LET file == fs[pathJoin(LOG_DIRECTORY, filename)]
    IN  [filename |-> filename,
         size |-> Len(Content(file)),
         created |-> file.birthtime,
         modified |-> file.mtime,
         messageCount |-> CountLines(Content(file))]

\* the sort gone wrong: the entries in the order fs.readdir listed them in
ListedUnsorted(stats) ==
    {s \in [1..Cardinality(stats) -> stats] :
        \A j, k \in DOMAIN s : j # k => s[j] # s[k]}

\* fileStats.sort((a, b) => b.modified - a.modified): the entries, most recently
\* modified first; entries modified at the same instant keep the order
\* fs.readdir listed them in, which is any order
SortedByModified(stats) ==
    {s \in [1..Cardinality(stats) -> stats] :
        /\ \A j, k \in DOMAIN s : j # k => s[j] # s[k]
        /\ \A k \in 1..(Len(s) - 1) : s[k].modified >= s[k + 1].modified}

\* the filenames requested of /api/logs/:filename, as Express decodes them
\* (an encoded slash %2F of the URL is a slash of req.params.filename)
Sep26 == <<"2","0","2","5","-","0","9","-","2","6">>
RetailPrefix == groupNameForFile(RetailAllStars) \o MessagesInfix

RequestedNames ==
    { \* the segment of the first group of the first day, and of the second day
      RetailPrefix \o Sep26 \o TxtSuffix,
      RetailPrefix \o <<"2","0","2","5","-","0","9","-","2","7">> \o TxtSuffix,
      \* the segment written for the group's name with white space around
      <<"-">> \o groupNameForFile(RetailAllStars) \o <<"-">> \o MessagesInfix
          \o Sep26 \o TxtSuffix,
      \* the name the documentation gives the segment
      <<"r","e","t","a","i","l","-","a","l","l","-","s","t","a","r","s">>
          \o MessagesInfix \o Sep26 \o TxtSuffix,
      \* a segment of the second group
      groupNameForFile(TARGET_GROUP_NAMES[2]) \o MessagesInfix \o Sep26 \o TxtSuffix,
      \* not a text file
      RetailPrefix \o Sep26 \o <<".","l","o","g">>,
      \* no segment name at all
      <<"n","o","t","e","s",".","t","x","t">>,
      <<".",".","/",".",".","/","e","t","c","/","p","a","s","s","w","d">>,
      \* a segment prefix, then a way up and out of the log directory
      RetailPrefix \o <<"/",".",".","/",".",".","/","n","o","t","e","s",".","t","x","t">> }

\* the requested names that pass the security check, and the path each gives
\* to fs.readFile
AcceptedNames == {filename \in RequestedNames : isValidLogFile(filename)}
ReadPath == [filename \in RequestedNames |-> pathJoin(LOG_DIRECTORY, filename)]

NoResponse ==
    [route |-> "none", filename |-> <<>>, status |-> 0, path |-> <<>>,
     read |-> FALSE, content |-> <<>>, lines |-> 0, files |-> <<>>,
     unreadable |-> {}]

\* the relay gone wrong: the message is emitted twice
RelayTwice(counts, i) == [counts EXCEPT ![i] = @ + 2]

\* io.emit('message', messageData) for the message of handler i
Relay(counts, i) == [counts EXCEPT ![i] = @ + 1]

\* no group names taken up for deriving their file-name parts
NoNaming == [name |-> <<>>, variant |-> <<>>, slugs |-> <<>>]

\* the groups of a batch run: the configured target groups
BatchGroups == 1..Len(TARGET_GROUP_NAMES)

\* a batch run at its start: every group Pending, no call made (attempts are
\* the failed attempts of the call a group is at, engineCalls the calls of
\* the summarization engine made for it), no error returned, nothing
\* delivered, not completed (the exit status is that of a completed run)
NewRun ==
    [state |-> [g \in BatchGroups |-> "Pending"],
     attempts |-> [g \in BatchGroups |-> 0],
     engineCalls |-> [g \in BatchGroups |-> 0],
     summarizeError |-> [g \in BatchGroups |-> "none"],
     delivered |-> {},
     completed |-> FALSE,
     exit |-> 0]

\* no listing taken up by discovery
NoDiscovery == [listing |-> {}, latest |-> <<>>, again |-> <<>>]

\* no path given to the summarizer: path and content are the file given,
\* text the text of the artifact returned, stored the artifact in the
\* summaries store, engineCalls the calls of the summarization engine
NoSummary ==
    [path |-> <<>>, content |-> <<>>, text |-> <<>>, stored |-> <<>>,
     engineCalls |-> 0, returned |-> FALSE, error |-> FALSE]

\* no log entry formatted
NoEntry == [contact |-> [name |-> <<>>, pushname |-> <<>>, number |-> <<>>],
            body |-> <<>>, at |-> 0, entry |-> <<>>]

\* the page as index.html gives it to the browser: the QR section shown, the
\* show-QR button and the chat interface hidden, no event handled
PageAtLoad ==
    [qrSectionHidden |-> FALSE, showQrBtnHidden |-> TRUE,
     chatInterfaceHidden |-> TRUE, handled |-> <<>>]

VARIABLES
    clock,      \* the current instant
    handlers,   \* the 'message' handlers started, in the order of the events
    files,      \* the file system
    emitted,    \* how often io.emit('message') has relayed each message
    response,   \* the HTTP response of the query answered by the last step
    matcher,    \* a chat and what the handler's test makes of it
    naming,     \* two group names and the file-name parts derived from them
    run,        \* a batch run of the summarizer: its groups and its exit status
    discovery,  \* a listing of the log directory and the segments discovery picks
    summarizer, \* a path given to the summarizer and the artifact it returns
    formatted,  \* a contact, a body and the log entry made of them
    browser,    \* the page of the browser client (script.js)
    qrCodeData,     \* the QR code the server holds, or null
    isClientReady,  \* whether the WhatsApp client is ready
    clientInfo,     \* the WhatsApp client's info, or null
    awaited,        \* the continuations not yet run: of qrcode.toDataURL in the
                    \* 'qr' handler, of client.info.then in the 'ready' handler
    sockets,        \* the browser sockets connected, with the events sent to each
    requests        \* the sendMessage and getChats requests of the sockets

\* the state of message logging, of the tools beside it, and of the session
\* with the WhatsApp client and the browser sockets
loggingVars == <<clock, handlers, files, emitted, response>>
moreVars == <<discovery, summarizer, formatted, browser>>
sessionVars == <<qrCodeData, isClientReady, clientInfo, awaited, sockets, requests>>

vars == <<clock, handlers, files, emitted, response, matcher, naming, run,
          moreVars, sessionVars>>

\* nothing discovered, summarized or formatted, the page as loaded
ToolsIdle ==
    /\ discovery = NoDiscovery
    /\ summarizer = NoSummary
    /\ formatted = NoEntry
    /\ browser = PageAtLoad

\* the server's globals as declared (let qrCodeData = null; let
\* isClientReady = false; let clientInfo = null), no socket connected
SessionAtStart ==
    /\ qrCodeData = "null"
    /\ isClientReady = FALSE
    /\ clientInfo = "null"
    /\ awaited = [toDataURL |-> 0, info |-> 0]
    /\ sockets = <<>>
    /\ requests = <<>>

Init ==
    /\ clock = 0
    /\ handlers = <<>>
    /\ files = [p \in {NotesPath} |->
                  [writes |-> <<[msg |-> 0, text |-> <<"p","i","n","\n">>]>>,
                   birthtime |-> 0, mtime |-> 0]]
    /\ emitted = [i \in 1..MaxMsgs |-> 0]
    /\ response = NoResponse
    /\ matcher = [chat |-> [name |-> <<>>, isGroup |-> FALSE], treated |-> "other"]
    /\ naming = NoNaming
    /\ run = NewRun
    /\ ToolsIdle
    /\ SessionAtStart

\* filepath of logGroupMessage for every inbound message and every instant
\* at which getDateString may be read
SegmentPaths ==
    [m \in Inbound |->
        [t \in 0..MaxClock |-> LogFilePath(m.chat.name, getDateString(t))]]

\* time passes
Tick ==
    /\ clock < MaxClock
    /\ clock' = clock + 1
    /\ UNCHANGED <<handlers, files, emitted, matcher, naming, run, moreVars, sessionVars>>
    /\ response' = NoResponse

\* client.on('message'): the handler starts and awaits message.getContact()
MessageArrives ==
    /\ Len(handlers) < MaxMsgs
    /\ \E m \in Inbound :
         handlers' = Append(handlers,
            [msg |-> m, pc |-> "getContact", dateString |-> <<>>,
             filepath |-> <<>>, entry |-> <<>>, ret |-> "none"])
    /\ UNCHANGED <<clock, files, emitted, matcher, naming, run, moreVars, sessionVars>>
    /\ response' = NoResponse

\* message.getContact() resolves: the handler awaits message.getChat()
ContactResolves(i) ==
    /\ handlers[i].pc = "getContact"
    /\ handlers' = [handlers EXCEPT ![i].pc = "getChat"]
    /\ UNCHANGED <<clock, files, emitted, matcher, naming, run, moreVars, sessionVars>>
    /\ response' = NoResponse

\* message.getChat() resolves with a chat that is no target group: nothing is
\* logged and the message is relayed
SkipMessage(i) ==
    /\ handlers[i].pc = "getChat"
    /\ ~IsTargetGroupChat(handlers[i].msg.chat)
    /\ handlers' = [handlers EXCEPT ![i].pc = "done"]
    /\ emitted' = Relay(emitted, i)
    /\ UNCHANGED <<clock, files, matcher, naming, run, moreVars, sessionVars>>
    /\ response' = NoResponse

\* message.getChat() resolves with a target group: logGroupMessage reads the
\* clock for the date, then for the timestamp, and awaits fs.appendFile
LogMessage(i) ==
    /\ handlers[i].pc = "getChat"
    /\ IsTargetGroupChat(handlers[i].msg.chat)
    /\ \E later \in clock..MaxClock :
         /\ later <= clock + 1
         /\ handlers' = [handlers EXCEPT
                ![i].pc = "appendFile",
                ![i].dateString = getDateString(clock),
                ![i].filepath = SegmentPaths[handlers[i].msg][clock],
                ![i].entry = logEntry(getTimestamp(later),
                                      senderName(handlers[i].msg.contact),
                                      messageContent(handlers[i].msg.body))]
         /\ clock' = later
    /\ UNCHANGED <<files, emitted, matcher, naming, run, moreVars, sessionVars>>
    /\ response' = NoResponse

\* fs.appendFile resolves: logGroupMessage returns true, the message is relayed
AppendSucceeds(i) ==
    /\ handlers[i].pc = "appendFile"
    /\ files' = appendFile(files, handlers[i].filepath,
                           [msg |-> i, text |-> handlers[i].entry], clock)
    /\ LET ret == logGroupMessageReturn(TRUE)
       IN  /\ handlers' = [handlers EXCEPT ![i].ret = ret, ![i].pc = AfterLog(ret)]
           /\ emitted' = IF AfterLog(ret) = "done" THEN Relay(emitted, i) ELSE emitted
    /\ UNCHANGED <<clock, matcher, naming, run, moreVars, sessionVars>>
    /\ response' = NoResponse

\* fs.appendFile rejects, at its open (nothing changes) or at its write (the
\* file exists afterwards): logGroupMessage's catch block returns false
AppendFails(i) ==
    /\ handlers[i].pc = "appendFile"
    /\ \E failsAt \in {"open", "write"} :
         files' = IF failsAt = "write"
                  THEN openForAppend(files, handlers[i].filepath, clock)
                  ELSE files
    /\ LET ret == logGroupMessageReturn(FALSE)
       IN  /\ handlers' = [handlers EXCEPT ![i].ret = ret, ![i].pc = AfterLog(ret)]
           /\ emitted' = IF AfterLog(ret) = "done" THEN Relay(emitted, i) ELSE emitted
    /\ UNCHANGED <<clock, matcher, naming, run, moreVars, sessionVars>>
    /\ response' = NoResponse

\* GET /api/logs/:filename with a name the security check refuses: 400
ContentQueryRefused ==
    /\ \E filename \in RequestedNames \ AcceptedNames :
         /\ response' = [NoResponse EXCEPT !.route = "logs", !.filename = filename,
                                           !.status = 400]
    /\ UNCHANGED <<clock, handlers, files, emitted, matcher, naming, run, moreVars, sessionVars>>

\* GET /api/logs/:filename with a name the security check lets pass:
\* fs.readFile of path.join(LOG_DIRECTORY, filename) gives the content (200),
\* fails with ENOENT (404) or fails otherwise (500)
ContentQueryReads ==
    /\ \E filename \in AcceptedNames :
         /\ LET filepath == ReadPath[filename]
                tried == [NoResponse EXCEPT !.route = "logs", !.filename = filename,
                                            !.path = filepath, !.read = TRUE]
            IN  IF filepath \notin DOMAIN files
                THEN response' = [tried EXCEPT !.status = 404]
                ELSE \/ response' = [tried EXCEPT
                                        !.status = 200,
                                        !.content = Content(files[filepath]),
                                        !.lines = CountLines(Content(files[filepath]))]
                     \/ response' = [tried EXCEPT !.status = 500]
    /\ UNCHANGED <<clock, handlers, files, emitted, matcher, naming, run, moreVars, sessionVars>>

\* GET /api/logging-status: the target groups' files of the log directory with
\* their sizes, times and message counts, most recently modified first
StatusQueryAnswers ==
    /\ LET targetLogFiles == {f \in readdir(files, LOG_DIRECTORY) : isTargetLogFile(f)}
           fileStats == {FileStat(files, f) : f \in targetLogFiles}
       IN  \E sorted \in SortedByModified(fileStats) :
              response' = [NoResponse EXCEPT !.route = "status", !.status = 200,
                                             !.lines = Cardinality(targetLogFiles),
                                             !.files = sorted]
    /\ UNCHANGED <<clock, handlers, files, emitted, matcher, naming, run, moreVars, sessionVars>>

\* GET /api/logging-status when fs.readdir fails, or when fs.stat or
\* fs.readFile fails for some of the target groups' files (the unreadable
\* ones): Promise.all rejects and the catch block answers 500
StatusQueryFails ==
    /\ LET targetLogFiles == {f \in readdir(files, LOG_DIRECTORY) : isTargetLogFile(f)}
       IN  \E failing \in SUBSET targetLogFiles :
              response' = [NoResponse EXCEPT !.route = "status", !.status = 500,
                                             !.unreadable = failing]
    /\ UNCHANGED <<clock, handlers, files, emitted, matcher, naming, run, moreVars, sessionVars>>

\* the steps of message logging
IngestNext ==
    \/ Tick
    \/ MessageArrives
    \/ \E i \in 1..Len(handlers) : ContactResolves(i)
    \/ \E i \in 1..Len(handlers) : SkipMessage(i)
    \/ \E i \in 1..Len(handlers) : LogMessage(i)
    \/ \E i \in 1..Len(handlers) : AppendSucceeds(i)
    \/ \E i \in 1..Len(handlers) : AppendFails(i)

\* message logging alone
IngestSpec == Init /\ [][IngestNext]_vars

\* the steps the 'message' handlers take once started: the continuations of
\* the promises they await
HandlerSteps ==
    \E i \in 1..Len(handlers) :
        \/ ContactResolves(i)
        \/ SkipMessage(i)
        \/ LogMessage(i)
        \/ AppendSucceeds(i)
        \/ AppendFails(i)

\* message logging where every awaited promise settles and the event loop
\* runs the continuation
FairIngestSpec == IngestSpec /\ WF_vars(HandlerSteps)

Next ==
    \/ IngestNext
    \/ ContentQueryRefused
    \/ ContentQueryReads
    \/ StatusQueryAnswers
    \/ StatusQueryFails

\* message logging and the query routes
Spec == Init /\ [][Next]_vars

(***************************************************************************)
(* Message logging and the status summary for a log directory in which a   *)
(* copy of a segment was left beside the segments.                         *)
(***************************************************************************)
\* the copy: retail-allstars-messages-2025-09-25.txt.bak
KeptCopyName ==
    RetailPrefix \o <<"2","0","2","5","-","0","9","-","2","5">> \o TxtSuffix
        \o <<".","b","a","k">>

KeptCopyInit ==
    /\ clock = 0
    /\ handlers = <<>>
    /\ files = [p \in {NotesPath, pathJoin(LOG_DIRECTORY, KeptCopyName)} |->
                  [writes |-> <<[msg |-> 0, text |-> <<"p","i","n","\n">>]>>,
                   birthtime |-> 0, mtime |-> 0]]
    /\ emitted = [i \in 1..MaxMsgs |-> 0]
    /\ response = NoResponse
    /\ matcher = [chat |-> [name |-> <<>>, isGroup |-> FALSE], treated |-> "other"]
    /\ naming = NoNaming
    /\ run = NewRun
    /\ ToolsIdle
    /\ SessionAtStart

StatusNext ==
    \/ IngestNext
    \/ StatusQueryAnswers
    \/ StatusQueryFails

StatusSpec == KeptCopyInit /\ [][StatusNext]_vars

(***************************************************************************)
(* The handler's test alone, over many chats: the configured names as      *)
(* they are, in upper case, with white space around, cut, extended and     *)
(* with a doubled blank, and a few names of their own, each as the name of *)
(* a group and of a chat with one contact.                                 *)
(***************************************************************************)
UpperChar(c) ==
    IF \E i \in 1..26 : LowerCase[i] = c
    THEN UpperCase[CHOOSE i \in 1..26 : LowerCase[i] = c]
    ELSE c

DoubleBlanks(s) ==
    Concat([i \in 1..Len(s) |-> IF s[i] = " " THEN <<" ", " ">> ELSE <<s[i]>>])

NameVariants(g) ==
    { g,
      [i \in 1..Len(g) |-> UpperChar(g[i])],
      toLowerCase(g),
      <<" ">> \o g \o <<" ">>,
      <<"\t">> \o [i \in 1..Len(g) |-> UpperChar(g[i])] \o <<"\n">>,
      Tail(g),
      SubSeq(g, 1, Len(g) - 1),
      g \o <<" ", "2">>,
      <<"a", " ">> \o g,
      DoubleBlanks(g),
      groupNameForFile(g) }

ChatCandidates ==
    { [name |-> n, isGroup |-> b] :
        n \in UNION {NameVariants(TARGET_GROUP_NAMES[g]) : g \in 1..Len(TARGET_GROUP_NAMES)}
              \cup { <<>>, <<" ">>, <<"f","a","m","i","l","y">> },
        b \in BOOLEAN }

MatchInit ==
    /\ clock = 0
    /\ handlers = <<>>
    /\ files = [p \in {NotesPath} |->
                  [writes |-> <<[msg |-> 0, text |-> <<"p","i","n","\n">>]>>,
                   birthtime |-> 0, mtime |-> 0]]
    /\ emitted = [i \in 1..MaxMsgs |-> 0]
    /\ response = NoResponse
    /\ matcher \in {[chat |-> c, treated |-> "pending"] : c \in ChatCandidates}
    /\ naming = NoNaming
    /\ run = NewRun
    /\ ToolsIdle
    /\ SessionAtStart

\* the test of the 'message' handler on the chat of a message
Match ==
    /\ matcher.treated = "pending"
    /\ matcher' = [matcher EXCEPT
          !.treated = IF IsTargetGroupChat(matcher.chat) THEN "target" ELSE "other"]
    /\ UNCHANGED <<clock, handlers, files, emitted, response, naming, run, moreVars, sessionVars>>

MatchNext == Match

MatchSpec == MatchInit /\ [][MatchNext]_vars

(***************************************************************************)
(* The file-name part of a group name alone, over pairs of names: a name   *)
(* and the same name in another case, with white space around it or with   *)
(* punctuation added, and the pair " Retail ALL-Stars! ", "retail all      *)
(* stars".                                                                 *)
(***************************************************************************)
UpperName(n) == [i \in 1..Len(n) |-> UpperChar(n[i])]

SlugNames ==
    Range(TARGET_GROUP_NAMES)
        \cup { <<"R","e","t","a","i","l"," ","A","l","l","-","S","t","a","r","s">>,
               <<"r","e","t","a","i","l"," ","a","l","l"," ","s","t","a","r","s">>,
               <<"f","a","m","i","l","y">>,
               <<"T","e","a","m"," ","4","2">> }

\* the name in another case, with white space around it, with punctuation
\* added
SlugVariants(n) ==
    { UpperName(n),
      toLowerCase(n),
      <<" ">> \o n,
      n \o <<" ">>,
      <<" ">> \o n \o <<" ">>,
      <<"\t">> \o UpperName(n) \o <<"\n">>,
      n \o <<"!">>,
      <<"(">> \o n \o <<")">>,
      <<" ">> \o UpperName(n) \o <<"!", " ">> }

NamePairs ==
    { <<n, v>> : n \in SlugNames,
                 v \in UNION {SlugVariants(m) : m \in SlugNames} }

SlugInputs ==
    { pair \in NamePairs : pair[2] \in SlugVariants(pair[1]) }
        \cup { << <<" ","R","e","t","a","i","l"," ","A","L","L","-",
                    "S","t","a","r","s","!"," ">>,
                  <<"r","e","t","a","i","l"," ","a","l","l"," ","s","t","a","r","s">> >> }

SlugInit ==
    /\ clock = 0
    /\ handlers = <<>>
    /\ files = [p \in {NotesPath} |->
                  [writes |-> <<[msg |-> 0, text |-> <<"p","i","n","\n">>]>>,
                   birthtime |-> 0, mtime |-> 0]]
    /\ emitted = [i \in 1..MaxMsgs |-> 0]
    /\ response = NoResponse
    /\ matcher = [chat |-> [name |-> <<>>, isGroup |-> FALSE], treated |-> "other"]
    /\ naming \in {[name |-> pair[1], variant |-> pair[2], slugs |-> <<>>] :
                      pair \in SlugInputs}
    /\ run = NewRun
    /\ ToolsIdle
    /\ SessionAtStart

\* groupNameForFile of logGroupMessage and of the routes, for both names
DeriveSlugs ==
    /\ naming.slugs = <<>>
    /\ naming' = [naming EXCEPT
          !.slugs = <<groupNameForFile(naming.name), groupNameForFile(naming.variant)>>]
    /\ UNCHANGED <<clock, handlers, files, emitted, response, matcher, run, moreVars, sessionVars>>

SlugNext == DeriveSlugs

SlugSpec == SlugInit /\ [][SlugNext]_vars

(***************************************************************************)
(* A batch run of the summarizer (scripts/summarize_logs.py) as the        *)
(* design describes it: for every configured group discovery, then the     *)
(* call of the summarization engine, then the post to the notification     *)
(* channel.  The groups proceed in any order; a call that fails            *)
(* transiently is repeated until its attempts are used up, a call that     *)
(* fails permanently is not repeated.                                      *)
(***************************************************************************)
FailureStates == {"DiscoveryFailed", "SummarizeFailed", "PublishFailed"}

TerminalStates == FailureStates \cup {"Published"}

\* the failure gone wrong: a group's failure ends the run for the groups
\* still on their way
FailRunAt(state, g, failure) ==
    [h \in DOMAIN state |->
        IF h = g \/ state[h] \notin TerminalStates THEN failure ELSE state[h]]

\* a group's failure: the group enters the failure state, the other groups
\* stay as they are
FailGroupAt(state, g, failure) == [state EXCEPT ![g] = failure]

\* the exit status gone wrong: failures are reported and the run exits 0
ExitStatusOfAnyRun(state) == 0

\* the exit status of a completed run: non-zero if any group failed
ExitStatus(state) ==
    IF \E g \in DOMAIN state : state[g] \in FailureStates THEN 1 ELSE 0

\* discovery finds the latest segment of group g
DiscoverySucceeds(g) ==
    /\ ~run.completed
    /\ run.state[g] = "Pending"
    /\ run' = [run EXCEPT !.state[g] = "Discovered"]
    /\ UNCHANGED <<clock, handlers, files, emitted, response, matcher, naming, moreVars, sessionVars>>

\* discovery finds no segment of group g, or cannot read the directory
DiscoveryFails(g) ==
    /\ ~run.completed
    /\ run.state[g] = "Pending"
    /\ run' = [run EXCEPT !.state = FailGroupAt(@, g, "DiscoveryFailed")]
    /\ UNCHANGED <<clock, handlers, files, emitted, response, matcher, naming, moreVars, sessionVars>>

\* the retry policy gone wrong: every failure is retried while attempts are left
RetriesAnyFailure(failed, permanent) == failed + 1 < MaxAttempts

\* the retry policy: a transient failure is retried while attempts are left,
\* a permanent failure never (failed: the attempts that failed before)
Retries(failed, permanent) == ~permanent /\ failed + 1 < MaxAttempts

\* the error a failed summarize returns
SummarizeError(permanent) == IF permanent THEN "permanent" ELSE "transient-exhausted"

\* the summarization engine answers: the summary of group g is stored
SummarizeSucceeds(g) ==
    /\ ~run.completed
    /\ run.state[g] = "Discovered"
    /\ run' = [run EXCEPT !.state[g] = "Summarized", !.attempts[g] = 0,
                          !.engineCalls[g] = @ + 1]
    /\ UNCHANGED <<clock, handlers, files, emitted, response, matcher, naming, moreVars, sessionVars>>

\* a call of the summarization engine fails: a permanent failure (no
\* authorization, malformed input) or the last attempt's transient failure
\* fails the group, another transient failure is retried
SummarizeFails(g) ==
    /\ ~run.completed
    /\ run.state[g] = "Discovered"
    /\ \E permanent \in BOOLEAN :
         IF Retries(run.attempts[g], permanent)
         THEN run' = [run EXCEPT !.attempts[g] = @ + 1,
                                 !.engineCalls[g] = @ + 1,
                                 !.summarizeError[g] = IF permanent THEN "permanent"
                                                       ELSE "transient"]
         ELSE run' = [run EXCEPT !.state = FailGroupAt(@, g, "SummarizeFailed"),
                                 !.attempts[g] = 0,
                                 !.engineCalls[g] = @ + 1,
                                 !.summarizeError[g] = SummarizeError(permanent)]
    /\ UNCHANGED <<clock, handlers, files, emitted, response, matcher, naming, moreVars, sessionVars>>

\* the notification channel accepts the post: the summary of group g is
\* delivered
PublishSucceeds(g) ==
    /\ ~run.completed
    /\ run.state[g] = "Summarized"
    /\ run' = [run EXCEPT !.state[g] = "Published", !.attempts[g] = 0,
                          !.delivered = @ \cup {g}]
    /\ UNCHANGED <<clock, handlers, files, emitted, response, matcher, naming, moreVars, sessionVars>>

\* a post to the notification channel fails, permanently or transiently
PublishFails(g) ==
    /\ ~run.completed
    /\ run.state[g] = "Summarized"
    /\ \E permanent \in BOOLEAN :
         IF Retries(run.attempts[g], permanent)
         THEN run' = [run EXCEPT !.attempts[g] = @ + 1]
         ELSE run' = [run EXCEPT !.state = FailGroupAt(@, g, "PublishFailed"),
                                 !.attempts[g] = 0]
    /\ UNCHANGED <<clock, handlers, files, emitted, response, matcher, naming, moreVars, sessionVars>>

\* every group is Published or failed: the run completes with its exit status
CompleteRun ==
    /\ ~run.completed
    /\ \A g \in BatchGroups : run.state[g] \in TerminalStates
    /\ run' = [run EXCEPT !.completed = TRUE, !.exit = ExitStatus(run.state)]
    /\ UNCHANGED <<clock, handlers, files, emitted, response, matcher, naming, moreVars, sessionVars>>

BatchNext ==
    \/ \E g \in BatchGroups : DiscoverySucceeds(g)
    \/ \E g \in BatchGroups : DiscoveryFails(g)
    \/ \E g \in BatchGroups : SummarizeSucceeds(g)
    \/ \E g \in BatchGroups : SummarizeFails(g)
    \/ \E g \in BatchGroups : PublishSucceeds(g)
    \/ \E g \in BatchGroups : PublishFails(g)
    \/ CompleteRun

BatchSpec == Init /\ [][BatchNext]_vars

\* a batch run is a process that runs on while it has a step to take
FairBatchSpec == BatchSpec /\ WF_vars(BatchNext)

(***************************************************************************)
(* Discovery of the latest segment of every group (the Segment Index of    *)
(* the design), over listings of the log directory: segments of the first  *)
(* group of three days and of the second group of two, and files that are  *)
(* no segments.                                                            *)
(***************************************************************************)
DateOn(day) == <<"2","0","2","5","-","0","9","-">> \o TwoDigits(day)

DirectoryNames ==
    { TargetFilePrefixes[1] \o DateOn(25) \o TxtSuffix,
      TargetFilePrefixes[1] \o DateOn(26) \o TxtSuffix,
      TargetFilePrefixes[1] \o DateOn(27) \o TxtSuffix,
      TargetFilePrefixes[2] \o DateOn(26) \o TxtSuffix,
      TargetFilePrefixes[2] \o <<"2","0","2","5","-","1","0","-","0","2">> \o TxtSuffix,
      KeptCopyName,
      <<"-">> \o groupNameForFile(RetailAllStars) \o <<"-">> \o MessagesInfix
          \o DateOn(27) \o TxtSuffix,
      <<"n","o","t","e","s",".","t","x","t">> }

\* the order of two characters of a date
CharBefore(c, d) ==
    LET rank(x) == IF x = "-" THEN 0
                   ELSE CHOOSE i \in 1..10 : Digits[i] = x
    IN  rank(c) < rank(d)

\* the lexicographic order of two strings of the same length
StringBefore(a, b) ==
    \E k \in 1..Len(a) :
        /\ SubSeq(a, 1, k - 1) = SubSeq(b, 1, k - 1)
        /\ CharBefore(a[k], b[k])

\* a date string YYYY-MM-DD
IsIsoDate(d) ==
    /\ Len(d) = 10
    /\ \A k \in 1..10 : IF k \in {5, 8} THEN d[k] = "-" ELSE d[k] \in Range(Digits)

\* the date embedded in a segment's name after the group's prefix
EmbeddedDate(g, filename) ==
    SubSeq(filename, Len(TargetFilePrefixes[g]) + 1, Len(TargetFilePrefixes[g]) + 10)

\* the files of a listing that are segments of group g:
\* {slug}-messages-{date}.txt
SegmentsOf(g, listing) ==
    {f \in listing :
        /\ Len(f) = Len(TargetFilePrefixes[g]) + 10 + Len(TxtSuffix)
        /\ startsWith(f, TargetFilePrefixes[g])
        /\ endsWith(f, TxtSuffix)
        /\ IsIsoDate(EmbeddedDate(g, f))}

\* the choice gone wrong: the segment with the least date string
EarliestOf(g, segments) ==
    CHOOSE f \in segments :
        \A other \in segments \ {f} :
            StringBefore(EmbeddedDate(g, f), EmbeddedDate(g, other))

\* the segment with the lexicographically greatest date string
LatestOf(g, segments) ==
    CHOOSE f \in segments :
        \A other \in segments \ {f} :
            StringBefore(EmbeddedDate(g, other), EmbeddedDate(g, f))

\* discoverLatest: for every group its latest segment, or none (the empty
\* name)
discoverLatest(listing) ==
    [g \in BatchGroups |->
        IF SegmentsOf(g, listing) = {} THEN <<>>
        ELSE LatestOf(g, SegmentsOf(g, listing))]

DiscoveryInit ==
    /\ clock = 0
    /\ handlers = <<>>
    /\ files = [p \in {NotesPath} |->
                  [writes |-> <<[msg |-> 0, text |-> <<"p","i","n","\n">>]>>,
                   birthtime |-> 0, mtime |-> 0]]
    /\ emitted = [i \in 1..MaxMsgs |-> 0]
    /\ response = NoResponse
    /\ matcher = [chat |-> [name |-> <<>>, isGroup |-> FALSE], treated |-> "other"]
    /\ naming = NoNaming
    /\ run = NewRun
    /\ discovery \in {[NoDiscovery EXCEPT !.listing = names] :
                         names \in SUBSET DirectoryNames}
    /\ summarizer = NoSummary
    /\ formatted = NoEntry
    /\ browser = PageAtLoad
    /\ SessionAtStart

\* discovery runs on the listing
Discover ==
    /\ discovery.latest = <<>>
    /\ discovery' = [discovery EXCEPT !.latest = discoverLatest(discovery.listing)]
    /\ UNCHANGED <<loggingVars, matcher, naming, run, summarizer, formatted, browser,
                   sessionVars>>

\* discovery runs again on the unchanged listing
DiscoverAgain ==
    /\ discovery.latest # <<>>
    /\ discovery.again = <<>>
    /\ discovery' = [discovery EXCEPT !.again = discoverLatest(discovery.listing)]
    /\ UNCHANGED <<loggingVars, matcher, naming, run, summarizer, formatted, browser,
                   sessionVars>>

DiscoveryNext == Discover \/ DiscoverAgain

DiscoverySpec == DiscoveryInit /\ [][DiscoveryNext]_vars

(***************************************************************************)
(* The summarizer (the Summarizer Client of the design) on one path: a     *)
(* segment, whose text goes to the summarization engine, or a summary      *)
(* artifact, which is loaded and passed through.                           *)
(***************************************************************************)
SummariesDirectory == <<"s","u","m","m","a","r","i","e","s">>

SummarySuffix == <<"-","s","u","m","m","a","r","y",".","t","x","t">>

\* summaries/{slug}-summary.txt of group g
SummaryPath(g) ==
    SummariesDirectory \o <<"/">> \o groupNameForFile(TARGET_GROUP_NAMES[g])
        \o SummarySuffix

\* the paths given to the summarizer, each with the group it belongs to
SummarizerInputs ==
    { [path |-> <<"m","e","s","s","a","g","e","-","l","o","g","s","/">>
                    \o TargetFilePrefixes[g] \o DateOn(day) \o TxtSuffix,
       group |-> g] : g \in 1..2, day \in {25, 26, 27} }
        \cup { [path |-> SummaryPath(g), group |-> g] : g \in BatchGroups }

\* the texts of the files given and the texts the engine answers with
FileTexts == { <<"[","1","]"," ","a",":"," ","x","\n">>,
               <<"I","s","s","u","e","s",":"," ","2">>,
               <<"I","s","s","u","e","s",":"," ","0","\n">>,
               <<>> }

EngineTexts == { <<"I","s","s","u","e","s",":"," ","1">>,
                 <<"I","s","s","u","e","s",":"," ","2">> }

\* the test gone wrong: no path is taken for a summary artifact
IsNeverAnArtifact(path) == FALSE

\* a path that is a summary artifact already: {slug}-summary.txt in the
\* summaries directory
IsSummaryArtifact(path) ==
    \E g \in BatchGroups : path = SummaryPath(g)

SummarizerInit ==
    /\ clock = 0
    /\ handlers = <<>>
    /\ files = [p \in {NotesPath} |->
                  [writes |-> <<[msg |-> 0, text |-> <<"p","i","n","\n">>]>>,
                   birthtime |-> 0, mtime |-> 0]]
    /\ emitted = [i \in 1..MaxMsgs |-> 0]
    /\ response = NoResponse
    /\ matcher = [chat |-> [name |-> <<>>, isGroup |-> FALSE], treated |-> "other"]
    /\ naming = NoNaming
    /\ run = NewRun
    /\ discovery = NoDiscovery
    /\ summarizer \in {[NoSummary EXCEPT !.path = input.path, !.content = text] :
                          input \in SummarizerInputs, text \in FileTexts}
    /\ formatted = NoEntry
    /\ browser = PageAtLoad
    /\ SessionAtStart

\* summarize of a segment: the engine is called and answers; the artifact is
\* returned and stored
SummarizeSegment ==
    /\ ~summarizer.returned
    /\ ~IsSummaryArtifact(summarizer.path)
    /\ \E answer \in EngineTexts :
         summarizer' = [summarizer EXCEPT !.text = answer, !.stored = answer,
                                          !.engineCalls = @ + 1, !.returned = TRUE]
    /\ UNCHANGED <<loggingVars, matcher, naming, run, discovery, formatted, browser,
                   sessionVars>>

\* summarize of a segment: the engine is called and fails for good
SummarizeSegmentFails ==
    /\ ~summarizer.returned
    /\ ~IsSummaryArtifact(summarizer.path)
    /\ summarizer' = [summarizer EXCEPT !.engineCalls = @ + 1, !.returned = TRUE,
                                        !.error = TRUE]
    /\ UNCHANGED <<loggingVars, matcher, naming, run, discovery, formatted, browser,
                   sessionVars>>

\* summarize of a summary artifact: its text is loaded and returned
PassThrough ==
    /\ ~summarizer.returned
    /\ IsSummaryArtifact(summarizer.path)
    /\ summarizer' = [summarizer EXCEPT !.text = summarizer.content, !.returned = TRUE]
    /\ UNCHANGED <<loggingVars, matcher, naming, run, discovery, formatted, browser,
                   sessionVars>>

\* the artifact of group g that was returned and stored is given to the
\* summarizer again
FeedBack ==
    /\ summarizer.returned
    /\ ~summarizer.error
    /\ summarizer.stored # <<>>
    /\ \E input \in SummarizerInputs :
         /\ input.path = summarizer.path
         /\ summarizer' = [summarizer EXCEPT !.path = SummaryPath(input.group),
                                             !.content = summarizer.stored,
                                             !.stored = <<>>,
                                             !.text = <<>>,
                                             !.returned = FALSE]
    /\ UNCHANGED <<loggingVars, matcher, naming, run, discovery, formatted, browser,
                   sessionVars>>

SummarizerNext ==
    \/ SummarizeSegment
    \/ SummarizeSegmentFails
    \/ PassThrough
    \/ FeedBack

SummarizerSpec == SummarizerInit /\ [][SummarizerNext]_vars

(***************************************************************************)
(* The browser client (public/script.js): the classes of the QR section,   *)
(* of the show-QR button and of the chat interface, under the clicks and   *)
(* the socket events the page handles.                                     *)
(***************************************************************************)
\* hiding gone wrong: the section is hidden and the button left as it was
hideQRSectionOnly(page) ==
    [page EXCEPT !.qrSectionHidden = TRUE]

\* hideQRSection()
hideQRSection(page) ==
    [page EXCEPT !.qrSectionHidden = TRUE, !.showQrBtnHidden = FALSE]

\* showQRSection()
showQRSection(page) ==
    [page EXCEPT !.qrSectionHidden = FALSE, !.showQrBtnHidden = TRUE]

\* showChatInterface()
showChatInterface(page) ==
    [page EXCEPT !.chatInterfaceHidden = FALSE]

Handles(page, what) ==
    [page EXCEPT !.handled = Append(@, what)]

\* the page as loaded: the classes index.html gives the three elements are
\* whatever the markup says
BrowserInit ==
    /\ clock = 0
    /\ handlers = <<>>
    /\ files = [p \in {NotesPath} |->
                  [writes |-> <<[msg |-> 0, text |-> <<"p","i","n","\n">>]>>,
                   birthtime |-> 0, mtime |-> 0]]
    /\ emitted = [i \in 1..MaxMsgs |-> 0]
    /\ response = NoResponse
    /\ matcher = [chat |-> [name |-> <<>>, isGroup |-> FALSE], treated |-> "other"]
    /\ naming = NoNaming
    /\ run = NewRun
    /\ discovery = NoDiscovery
    /\ summarizer = NoSummary
    /\ formatted = NoEntry
    /\ browser \in [qrSectionHidden : BOOLEAN, showQrBtnHidden : BOOLEAN,
                    chatInterfaceHidden : BOOLEAN, handled : {<<>>}]
    /\ SessionAtStart

\* hideQrBtn is clicked
HideClick ==
    /\ Len(browser.handled) < MaxEvents
    /\ browser' = Handles(hideQRSection(browser), "hideClick")
    /\ UNCHANGED <<loggingVars, matcher, naming, run, discovery, summarizer, formatted,
                   sessionVars>>

\* showQrBtn is clicked
ShowClick ==
    /\ Len(browser.handled) < MaxEvents
    /\ browser' = Handles(showQRSection(browser), "showClick")
    /\ UNCHANGED <<loggingVars, matcher, naming, run, discovery, summarizer, formatted,
                   sessionVars>>

\* socket.on('qr'): the code is displayed, no class changes
BrowserQr ==
    /\ Len(browser.handled) < MaxEvents
    /\ browser' = Handles(browser, "qr")
    /\ UNCHANGED <<loggingVars, matcher, naming, run, discovery, summarizer, formatted,
                   sessionVars>>

\* socket.on('ready'): showChatInterface(); hideQRSection()
BrowserReady ==
    /\ Len(browser.handled) < MaxEvents
    /\ browser' = Handles(hideQRSection(showChatInterface(browser)), "ready")
    /\ UNCHANGED <<loggingVars, matcher, naming, run, discovery, summarizer, formatted,
                   sessionVars>>

\* socket.on('disconnected'): showQRSection()
BrowserDisconnected ==
    /\ Len(browser.handled) < MaxEvents
    /\ browser' = Handles(showQRSection(browser), "disconnected")
    /\ UNCHANGED <<loggingVars, matcher, naming, run, discovery, summarizer, formatted,
                   sessionVars>>

BrowserNext ==
    \/ HideClick
    \/ ShowClick
    \/ BrowserQr
    \/ BrowserReady
    \/ BrowserDisconnected

BrowserSpec == BrowserInit /\ [][BrowserNext]_vars

(***************************************************************************)
(* The log entry of logGroupMessage as a function of the contact, of the   *)
(* body and of the instant of the timestamp.                               *)
(***************************************************************************)
\* what a contact's name, push name and number may be: absent or empty, a
\* word, a blank
ContactStrings == { <<>>, <<"A","n","n">>, <<" ">> }

\* what a message's body may be
Bodies == { <<>>, Hello, TwoLines, <<" ">> }

FormatInit ==
    /\ clock = 0
    /\ handlers = <<>>
    /\ files = [p \in {NotesPath} |->
                  [writes |-> <<[msg |-> 0, text |-> <<"p","i","n","\n">>]>>,
                   birthtime |-> 0, mtime |-> 0]]
    /\ emitted = [i \in 1..MaxMsgs |-> 0]
    /\ response = NoResponse
    /\ matcher = [chat |-> [name |-> <<>>, isGroup |-> FALSE], treated |-> "other"]
    /\ naming = NoNaming
    /\ run = NewRun
    /\ discovery = NoDiscovery
    /\ summarizer = NoSummary
    /\ formatted \in [contact : [name : ContactStrings, pushname : ContactStrings,
                                 number : ContactStrings],
                      body : Bodies, at : 0..MaxClock, entry : {<<>>}]
    /\ browser = PageAtLoad
    /\ SessionAtStart

\* logGroupMessage formats the entry: timestamp, senderName, messageContent,
\* logEntry
FormatEntry ==
    /\ formatted.entry = <<>>
    /\ formatted' = [formatted EXCEPT
           !.entry = logEntry(getTimestamp(formatted.at),
                              senderName(formatted.contact),
                              messageContent(formatted.body))]
    /\ UNCHANGED <<loggingVars, matcher, naming, run, discovery, summarizer, browser,
                   sessionVars>>

FormatNext == FormatEntry

FormatSpec == FormatInit /\ [][FormatNext]_vars

(***************************************************************************)
(* The session: the WhatsApp client's events, the browser sockets that     *)
(* connect, and their sendMessage and getChats requests.                   *)
(***************************************************************************)
NotReadyError == [event |-> "error", text |-> "WhatsApp client is not ready"]
SendFailedError == [event |-> "error", text |-> "Failed to send message"]
ChatsFailedError == [event |-> "error", text |-> "Failed to get chats"]

\* the greeting gone wrong: 'ready' is sent whenever no QR code is held
GreetingWithoutReadyTest(qr, ready) ==
    IF qr # "null" THEN <<"qr">> ELSE <<"ready">>

\* what io.on('connection') sends the new socket: if (qrCodeData) 'qr', else
\* if (isClientReady) 'ready'
Greeting(qr, ready) ==
    IF qr # "null" THEN <<"qr">>
    ELSE IF ready THEN <<"ready">>
    ELSE <<>>

\* the test gone wrong: no request is refused
RefusesNone(ready) == FALSE

\* if (!isClientReady) of both request handlers
Refuses(ready) == ~ready

\* a request as its handler starts: the kind, the data sent along, what the
\* handler reads of isClientReady, where it is, the events it has emitted to
\* its socket, the calls it has made of the WhatsApp client, the messages
\* WhatsApp has sent for it
NewRequest(kind, data, ready) ==
    [kind |-> kind, data |-> data, ready |-> ready, pc |-> "start",
     answers |-> <<>>, clientCalls |-> 0, sent |-> 0]

\* the handler emits an event to its socket and ends
Answered(r, answer) ==
    [r EXCEPT !.answers = Append(@, answer), !.pc = "done"]

\* the catch block gone wrong: the error is printed only
CaughtSilently(r, answer) ==
    [r EXCEPT !.pc = "done"]

\* the catch block of a request handler: socket.emit('error', ...)
Caught(r, answer) == Answered(r, answer)

\* the handler calls the WhatsApp client and awaits the result
Calls(r, what) ==
    [r EXCEPT !.clientCalls = @ + 1, !.pc = what]

\* client.on('qr'): the handler starts and awaits qrcode.toDataURL(qr)
QrReceived ==
    /\ ~isClientReady
    /\ awaited.toDataURL < MaxAwaited
    /\ awaited' = [awaited EXCEPT !.toDataURL = @ + 1]
    /\ UNCHANGED <<loggingVars, matcher, naming, run, moreVars,
                   qrCodeData, isClientReady, clientInfo, sockets, requests>>

\* qrcode.toDataURL resolves: qrCodeData is set and broadcast
QrEncoded ==
    /\ awaited.toDataURL > 0
    /\ awaited' = [awaited EXCEPT !.toDataURL = @ - 1]
    /\ qrCodeData' = "dataURL"
    /\ UNCHANGED <<loggingVars, matcher, naming, run, moreVars,
                   isClientReady, clientInfo, sockets, requests>>

\* qrcode.toDataURL rejects: the catch block prints the error
QrEncodingFails ==
    /\ awaited.toDataURL > 0
    /\ awaited' = [awaited EXCEPT !.toDataURL = @ - 1]
    /\ UNCHANGED <<loggingVars, matcher, naming, run, moreVars,
                   qrCodeData, isClientReady, clientInfo, sockets, requests>>

\* client.on('ready'): isClientReady = true, qrCodeData = null, and
\* client.info.then(...) either registers its callback or throws, client.info
\* being what the library makes it
ClientReady ==
    /\ ~isClientReady
    /\ isClientReady' = TRUE
    /\ qrCodeData' = "null"
    /\ \E registers \in BOOLEAN :
         IF registers
         THEN /\ awaited.info < MaxAwaited
              /\ awaited' = [awaited EXCEPT !.info = @ + 1]
         ELSE awaited' = awaited
    /\ UNCHANGED <<loggingVars, matcher, naming, run, moreVars,
                   clientInfo, sockets, requests>>

\* the callback of client.info.then runs: clientInfo is set and 'ready' is
\* broadcast
InfoResolves ==
    /\ awaited.info > 0
    /\ awaited' = [awaited EXCEPT !.info = @ - 1]
    /\ clientInfo' = "info"
    /\ sockets' = [k \in 1..Len(sockets) |->
                      [sockets[k] EXCEPT !.broadcast = @ \cup {"info"}]]
    /\ UNCHANGED <<loggingVars, matcher, naming, run, moreVars,
                   qrCodeData, isClientReady, requests>>

\* client.on('disconnected'): isClientReady = false, clientInfo = null
ClientDisconnected ==
    /\ isClientReady
    /\ isClientReady' = FALSE
    /\ clientInfo' = "null"
    /\ UNCHANGED <<loggingVars, matcher, naming, run, moreVars,
                   qrCodeData, awaited, sockets, requests>>

\* GET /api/status: res.json({isReady, hasQR: !!qrCodeData, clientInfo})
apiStatus ==
    [isReady |-> isClientReady, hasQR |-> qrCodeData # "null",
     clientInfo |-> clientInfo]

\* io.on('connection'): the new socket is sent the current status; a 'ready'
\* sent here carries clientInfo as it is now.  broadcast holds the client
\* info of the 'ready' events broadcast to the socket since
SocketConnects ==
    /\ Len(sockets) < MaxSockets
    /\ sockets' = Append(sockets,
          [greeting |-> Greeting(qrCodeData, isClientReady),
           clientInfo |-> IF Greeting(qrCodeData, isClientReady) = <<"ready">>
                          THEN clientInfo ELSE "none",
           broadcast |-> {}])
    /\ UNCHANGED <<loggingVars, matcher, naming, run, moreVars,
                   qrCodeData, isClientReady, clientInfo, awaited, requests>>

\* socket.on('sendMessage') up to its first await: the request is refused, or
\* destructuring the data throws and the catch block answers, or
\* client.sendMessage is called
SendMessageArrives ==
    /\ sockets # <<>>
    /\ Len(requests) < MaxRequests
    /\ \E data \in {"number and message", "undefined"} :
         LET r == NewRequest("sendMessage", data, isClientReady)
         IN  requests' = Append(requests,
                IF Refuses(r.ready) THEN Answered(r, NotReadyError)
                ELSE IF data = "undefined" THEN Caught(r, SendFailedError)
                ELSE Calls(r, "sendMessage"))
    /\ UNCHANGED <<loggingVars, matcher, naming, run, moreVars,
                   qrCodeData, isClientReady, clientInfo, awaited, sockets>>

\* client.sendMessage resolves, the message is sent: client.getChatById is
\* called
SendResolves(k) ==
    /\ requests[k].pc = "sendMessage"
    /\ requests' = [requests EXCEPT
           ![k] = Calls([requests[k] EXCEPT !.sent = @ + 1], "getChatById")]
    /\ UNCHANGED <<loggingVars, matcher, naming, run, moreVars,
                   qrCodeData, isClientReady, clientInfo, awaited, sockets>>

\* client.sendMessage rejects: the catch block answers
SendRejects(k) ==
    /\ requests[k].pc = "sendMessage"
    /\ requests' = [requests EXCEPT ![k] = Caught(requests[k], SendFailedError)]
    /\ UNCHANGED <<loggingVars, matcher, naming, run, moreVars,
                   qrCodeData, isClientReady, clientInfo, awaited, sockets>>

\* client.getChatById resolves: 'messageSent' is emitted
ChatLookupResolves(k) ==
    /\ requests[k].pc = "getChatById"
    /\ requests' = [requests EXCEPT
           ![k] = Answered(requests[k], [event |-> "messageSent", text |-> "true"])]
    /\ UNCHANGED <<loggingVars, matcher, naming, run, moreVars,
                   qrCodeData, isClientReady, clientInfo, awaited, sockets>>

\* client.getChatById rejects: the catch block answers
ChatLookupRejects(k) ==
    /\ requests[k].pc = "getChatById"
    /\ requests' = [requests EXCEPT ![k] = Caught(requests[k], SendFailedError)]
    /\ UNCHANGED <<loggingVars, matcher, naming, run, moreVars,
                   qrCodeData, isClientReady, clientInfo, awaited, sockets>>

\* socket.on('getChats') up to its await: the request is refused or
\* client.getChats is called
GetChatsArrives ==
    /\ sockets # <<>>
    /\ Len(requests) < MaxRequests
    /\ LET r == NewRequest("getChats", "none", isClientReady)
       IN  requests' = Append(requests,
              IF Refuses(r.ready) THEN Answered(r, NotReadyError)
              ELSE Calls(r, "getChats"))
    /\ UNCHANGED <<loggingVars, matcher, naming, run, moreVars,
                   qrCodeData, isClientReady, clientInfo, awaited, sockets>>

\* client.getChats resolves: 'chats' is emitted
GetChatsResolves(k) ==
    /\ requests[k].pc = "getChats"
    /\ requests' = [requests EXCEPT
           ![k] = Answered(requests[k], [event |-> "chats", text |-> "chatList"])]
    /\ UNCHANGED <<loggingVars, matcher, naming, run, moreVars,
                   qrCodeData, isClientReady, clientInfo, awaited, sockets>>

\* client.getChats rejects: the catch block answers
GetChatsRejects(k) ==
    /\ requests[k].pc = "getChats"
    /\ requests' = [requests EXCEPT ![k] = Caught(requests[k], ChatsFailedError)]
    /\ UNCHANGED <<loggingVars, matcher, naming, run, moreVars,
                   qrCodeData, isClientReady, clientInfo, awaited, sockets>>

\* the continuations of the request handlers
RequestSteps ==
    \E k \in 1..Len(requests) :
        \/ SendResolves(k)
        \/ SendRejects(k)
        \/ ChatLookupResolves(k)
        \/ ChatLookupRejects(k)
        \/ GetChatsResolves(k)
        \/ GetChatsRejects(k)

SessionNext ==
    \/ QrReceived
    \/ QrEncoded
    \/ QrEncodingFails
    \/ ClientReady
    \/ InfoResolves
    \/ ClientDisconnected
    \/ SocketConnects
    \/ SendMessageArrives
    \/ GetChatsArrives
    \/ \E k \in 1..Len(requests) : SendResolves(k)
    \/ \E k \in 1..Len(requests) : SendRejects(k)
    \/ \E k \in 1..Len(requests) : ChatLookupResolves(k)
    \/ \E k \in 1..Len(requests) : ChatLookupRejects(k)
    \/ \E k \in 1..Len(requests) : GetChatsResolves(k)
    \/ \E k \in 1..Len(requests) : GetChatsRejects(k)

\* the session alone
SessionSpec == Init /\ [][SessionNext]_vars

\* the session where every call of the WhatsApp client settles and the event
\* loop runs the continuation
FairSessionSpec == SessionSpec /\ WF_vars(RequestSteps)

(***************************************************************************)
(* Properties of message logging.                                          *)
(***************************************************************************)
\* where the data written for message i stands: the files and the positions
\* in them
EntriesOf(i) ==
    {pk \in UNION {{<<p, k>> : k \in 1..Len(files[p].writes)} : p \in DOMAIN files} :
        files[pk[1]].writes[pk[2]].msg = i}

\* the claims' notion of a message of a target group: the chat is a group and
\* its name equals a configured name, both in lower case and trimmed
NamesAGroup(chat) ==
    \E g \in 1..Len(TARGET_GROUP_NAMES) :
        toLowerCase(trim(chat.name)) = toLowerCase(trim(TARGET_GROUP_NAMES[g]))

OfTargetGroup(chat) == chat.isGroup /\ NamesAGroup(chat)

\* C1: in every segment file the entries stand in the order in which their
\* messages arrived at the 'message' handler (the order of the handlers)
C1_EntriesInArrivalOrder ==
    \A p \in DOMAIN files :
        \A j, k \in 1..Len(files[p].writes) :
            j < k => files[p].writes[j].msg < files[p].writes[k].msg

\* C2: at most one 'message' handler is in progress at any time
C2_OneHandlerAtATime ==
    Cardinality({i \in 1..Len(handlers) : handlers[i].pc # "done"}) <= 1

\* C3: no two appends to the same segment path are in progress at the same time
C3_AppendsToAPathSerialized ==
    \A i, j \in 1..Len(handlers) :
        (i # j /\ handlers[i].pc = "appendFile" /\ handlers[j].pc = "appendFile")
            => handlers[i].filepath # handlers[j].filepath

\* C4: a failed append is reported as false and throws nothing; the handler
\* runs on and relays the message, and a later message whose own append
\* succeeds is in its file all the same
C4_AppendFailureIsContained ==
    \A i \in 1..Len(handlers) :
        /\ handlers[i].pc # "rejected"
        /\ (handlers[i].pc = "done" /\ handlers[i].filepath # <<>> /\ EntriesOf(i) = {})
              => (handlers[i].ret = "false" /\ emitted[i] = 1)
        /\ handlers[i].ret = "true"
              => \E k \in 1..Len(files[handlers[i].filepath].writes) :
                    /\ EntriesOf(i) = {<<handlers[i].filepath, k>>}
                    /\ files[handlers[i].filepath].writes[k].text = handlers[i].entry

\* C4 happens: an append has failed and the append of a later message to the
\* same path has succeeded
C4_Witness ==
    \E i, j \in 1..Len(handlers) :
        /\ i < j
        /\ handlers[i].ret = "false"
        /\ handlers[j].ret = "true"
        /\ handlers[i].filepath = handlers[j].filepath
        /\ EntriesOf(j) # {}

\* C5: a message of a target group whose append did not fail has exactly one
\* line in the segment once its handler is done
C5_OneLinePerLoggedMessage ==
    \A i \in 1..Len(handlers) :
        (handlers[i].pc = "done" /\ OfTargetGroup(handlers[i].msg.chat)
             /\ handlers[i].ret # "false")
            => /\ Cardinality(EntriesOf(i)) = 1
               /\ \A pk \in EntriesOf(i) :
                     CountLines(files[pk[1]].writes[pk[2]].text) = 1

\* a chat name that differs from every configured name (lower-cased and
\* trimmed) but contains one or is contained in one
OnlyOverlapsAGroup(chat) ==
    /\ ~NamesAGroup(chat)
    /\ \E g \in 1..Len(TARGET_GROUP_NAMES) :
          LET name == toLowerCase(trim(chat.name))
              configured == toLowerCase(trim(TARGET_GROUP_NAMES[g]))
          IN  includes(name, configured) \/ includes(configured, name)

\* C6: a message is treated as a target group's exactly when its chat is a
\* group whose name equals a configured name, both lower-cased and trimmed;
\* a name that only contains or is contained in a configured name does not
\* match, and a chat that is no group never matches
C6_MatchIsGroupAndExactName ==
    matcher.treated # "pending" =>
        /\ matcher.treated = "target" <=> OfTargetGroup(matcher.chat)
        /\ OnlyOverlapsAGroup(matcher.chat) => matcher.treated = "other"
        /\ ~matcher.chat.isGroup => matcher.treated = "other"

\* C6 happens: a group is matched under a name written unlike the configured one
C6_Witness ==
    /\ matcher.treated = "target"
    /\ matcher.chat.name \notin Range(TARGET_GROUP_NAMES)
    /\ matcher.chat.name # trim(matcher.chat.name)

IsPrefix(s, t) == Len(s) <= Len(t) /\ SubSeq(t, 1, Len(s)) = s

\* C8: every step keeps every file and keeps its content as a prefix of its
\* new content, and a step that answers a query changes no file at all
C8_FilesOnlyGrowAtTheEnd ==
    [][/\ \A p \in DOMAIN files :
             /\ p \in DOMAIN files'
             /\ IsPrefix(Content(files[p]), Content(files'[p]))
       /\ response'.route # "none" => files' = files]_vars

\* C8 happens: a segment holds the entries of two appends and a query has
\* just read it
C8_Witness ==
    /\ response.route = "logs"
    /\ response.status = 200
    /\ response.path \in DOMAIN files
    /\ Len(files[response.path].writes) >= 2

\* C9: whatever the content query reads lies inside the log directory
C9_ReadsStayInsideLogDirectory ==
    response.read => startsWith(response.path, LOG_DIRECTORY \o <<"/">>)

\* a name of the form {slug}-messages-*.txt for the slug of a configured
\* group: the slug and '-messages-', then any text, then '.txt'
FollowsNamingConvention(filename) ==
    \E g \in 1..Len(TARGET_GROUP_NAMES) :
        LET head == groupNameForFile(TARGET_GROUP_NAMES[g]) \o MessagesInfix
            rest == Len(filename) - Len(head) - Len(TxtSuffix)
        IN  /\ rest >= 0
            /\ filename = head \o SubSeq(filename, Len(head) + 1, Len(head) + rest)
                               \o TxtSuffix

\* C10: a content query for a name that does not follow the naming convention
\* of a configured group is answered 400 and reads nothing
C10_OtherNamesAreRefusedUnread ==
    (response.route = "logs" /\ ~FollowsNamingConvention(response.filename))
        => /\ response.status = 400
           /\ ~response.read
           /\ response.path = <<>>
           /\ response.content = <<>>

\* C10 happens: ../../etc/passwd has been asked for and refused
C10_Witness ==
    /\ response.route = "logs"
    /\ response.filename = <<".",".","/",".",".","/","e","t","c","/","p","a","s","s","w","d">>
    /\ response.status = 400

\* C11: a content query for a name that passes the security check and is no
\* file of the log directory is answered 404, never 200 and never 400; a
\* name that passes is answered 200, 404 or 500, and 200 only with the
\* content of the file of that name in the log directory
C11_MissingSegmentIsNotFound ==
    (response.route = "logs" /\ isValidLogFile(response.filename))
        => /\ response.status \in {200, 404, 500}
           /\ response.filename \notin readdir(files, LOG_DIRECTORY)
                 => response.status = 404
           /\ response.status = 200
                 => /\ response.filename \in readdir(files, LOG_DIRECTORY)
                    /\ response.content
                          = Content(files[LOG_DIRECTORY \o <<"/">> \o response.filename])

\* C12: a group name and the same name in another case, with punctuation
\* added or with white space around it have the same file-name part, and
\* " Retail ALL-Stars! " has the file-name part of "retail all stars"
C12_SlugIgnoresCasePunctuationAndBlanks ==
    naming.slugs # <<>> => naming.slugs[1] = naming.slugs[2]

\* the one line `[timestamp] Jane: hello` of a file, for some timestamp
IsHelloFromJane(content) ==
    \E t \in 0..MaxClock :
        content = <<"[">> \o toISOString(t) \o <<"]"," ","J","a","n","e",":"," ">>
                      \o Hello \o <<"\n">>

\* C13: once the one message "hello" of Jane in the configured group has been
\* logged on 2025-09-26, the log directory holds the file
\* retail-all-stars-messages-2025-09-26.txt and its content is the one line
\* `[timestamp] Jane: hello`
C13_HelloFromJaneIsLogged ==
    (/\ Len(handlers) = 1
     /\ handlers[1].ret = "true"
     /\ handlers[1].msg = [chat |-> [name |-> RetailAllStars, isGroup |-> TRUE],
                           contact |-> Jane, body |-> Hello]
     /\ handlers[1].dateString = Sep26)
        => LET segment == LOG_DIRECTORY
                   \o <<"/","r","e","t","a","i","l","-","a","l","l","-",
                        "s","t","a","r","s">>
                   \o MessagesInfix \o Sep26 \o TxtSuffix
           IN  /\ segment \in DOMAIN files
               /\ IsHelloFromJane(Content(files[segment]))

\* the offsets from UTC, in hours, of the time zones a server may be set to
ServerZoneHours == {0 - 12, 0, 12}

\* the calendar date of an instant on a server's local clock: YYYY-MM-DD of
\* the instant moved by the zone's offset
LocalDateString(t, zoneHours) ==
    <<"2","0","2","5","-","0","9","-">> \o TwoDigits(26 + ((12 * t + zoneHours) \div 24))

\* C14: whatever time zone the server is set to, the date logGroupMessage
\* puts into a segment's name is the local calendar date of the instant at
\* which it logs the message
C14_SegmentDateIsLocalDate ==
    [][\A i \in 1..Len(handlers) :
          (handlers[i].pc = "getChat" /\ handlers'[i].pc = "appendFile")
              => \A zone \in ServerZoneHours :
                    /\ handlers'[i].dateString = LocalDateString(clock, zone)
                    /\ handlers'[i].filepath
                          = pathJoin(LOG_DIRECTORY,
                               LogFileName(handlers[i].msg.chat.name,
                                           LocalDateString(clock, zone)))]_vars

\* the lines a reader finds in a text: the pieces between the newlines that
\* are not blank
LinesOf(content) ==
    SelectSeq(split(content, "\n"), LAMBDA line : trim(line) # <<>>)

\* the entries appended to a file, in the order of the appends, each without
\* the newline that ends it
AppendedEntries(file) ==
    [k \in 1..Len(file.writes) |->
        SubSeq(file.writes[k].text, 1, Len(file.writes[k].text) - 1)]

\* C15: a segment read back by the content query has as many lines as
\* entries were appended to it, and its lines are the entries in the order
\* of the appends; the status summary counts as many messages as entries
\* were appended
C15_ReadBackGivesTheEntries ==
    /\ (/\ response.route = "logs"
        /\ response.status = 200
        /\ startsWith(response.path, LOG_DIRECTORY \o <<"/">>))
          => /\ response.lines = Len(files[response.path].writes)
             /\ LinesOf(response.content) = AppendedEntries(files[response.path])
    /\ (response.route = "status" /\ response.status = 200)
          => \A k \in 1..Len(response.files) :
                response.files[k].messageCount
                    = Len(files[pathJoin(LOG_DIRECTORY,
                                         response.files[k].filename)].writes)

\* the names of the files a status summary lists
ListedNames(summary) == {summary[k].filename : k \in 1..Len(summary)}

\* C16: a status query that finds some segments unreadable is answered 200
\* all the same and lists the other segments
C16_UnreadableSegmentIsSkipped ==
    (response.route = "status" /\ response.unreadable # {})
        => /\ response.status = 200
           /\ ListedNames(response.files)
                 = {f \in readdir(files, LOG_DIRECTORY) : isTargetLogFile(f)}
                       \ response.unreadable

\* a date YYYY-MM-DD: digits, with hyphens after the year and the month
IsDateString(d) ==
    /\ Len(d) = 10
    /\ \A k \in 1..10 : IF k \in {5, 8} THEN d[k] = "-" ELSE d[k] \in Range(Digits)

\* a name {slug}-messages-{YYYY-MM-DD}.txt for the slug of a configured group
IsSegmentName(filename) ==
    \E g \in 1..Len(TARGET_GROUP_NAMES) :
        LET head == groupNameForFile(TARGET_GROUP_NAMES[g]) \o MessagesInfix
        IN  /\ Len(filename) = Len(head) + 10 + Len(TxtSuffix)
            /\ startsWith(filename, head)
            /\ IsDateString(SubSeq(filename, Len(head) + 1, Len(head) + 10))
            /\ endsWith(filename, TxtSuffix)

\* C17: a status summary lists exactly the files of the log directory named
\* {slug}-messages-{YYYY-MM-DD}.txt for a configured group, and its
\* totalLogFiles is the number of the files it lists
C17_SummaryListsExactlyTheSegments ==
    (response.route = "status" /\ response.status = 200)
        => /\ ListedNames(response.files)
                 = {f \in readdir(files, LOG_DIRECTORY) : IsSegmentName(f)}
           /\ response.lines = Len(response.files)

\* C18: the files of a status summary stand most recently modified first:
\* of two adjacent entries the first was modified no earlier than the second
C18_SummaryIsSortedByModified ==
    (response.route = "status" /\ response.status = 200)
        => \A k \in 1..(Len(response.files) - 1) :
              response.files[k].modified >= response.files[k + 1].modified

\* C18 happens: a summary lists two segments, the second modified earlier
\* than the first
C18_Witness ==
    /\ response.route = "status"
    /\ response.status = 200
    /\ Len(response.files) >= 2
    /\ response.files[1].modified > response.files[2].modified
    /\ IsSegmentName(response.files[1].filename)
    /\ IsSegmentName(response.files[2].filename)

(***************************************************************************)
(* Properties of a batch run.                                              *)
(***************************************************************************)
\* the moves of a group: Pending -> Discovered -> Summarized -> Published,
\* and from each of the first three into the failure state of its stage
GroupMoves ==
    { <<"Pending", "Discovered">>, <<"Discovered", "Summarized">>,
      <<"Summarized", "Published">>, <<"Pending", "DiscoveryFailed">>,
      <<"Discovered", "SummarizeFailed">>, <<"Summarized", "PublishFailed">> }

\* C19: a step of a batch run that moves a group moves it along
\* Pending -> Discovered -> Summarized -> Published or into the failure
\* state of its stage and leaves every other group as it is; a failed or
\* Published group never moves again, and a Published group's notification
\* has been delivered
C19_GroupsMoveAloneAlongTheStages ==
    [][\A g \in BatchGroups :
          /\ run'.state[g] # run.state[g]
                => /\ <<run.state[g], run'.state[g]>> \in GroupMoves
                   /\ \A h \in BatchGroups \ {g} : run'.state[h] = run.state[h]
          /\ run.state[g] \in TerminalStates => run'.state[g] = run.state[g]
          /\ run'.state[g] = "Published" <=> g \in run'.delivered]_vars

\* C19 happens: the run is complete, the first group's summarization has
\* failed, and the second group is Published and its notification delivered
C19_Witness ==
    /\ run.completed
    /\ run.state[1] = "SummarizeFailed"
    /\ run.state[2] = "Published"
    /\ 2 \in run.delivered

\* C20: a batch run completes; when it has, every group is Published or
\* failed, and the exit status is non-zero exactly when a group has failed
C20_RunCompletesWithItsExitStatus ==
    /\ <>run.completed
    /\ [](run.completed
            => /\ \A g \in BatchGroups : run.state[g] \in TerminalStates
               /\ run.exit # 0 <=> \E g \in BatchGroups : run.state[g] \in FailureStates)

\* C20 happens: a run has completed with a non-zero exit status after a
\* group failed at discovery, and the groups after it were carried through
C20_Witness ==
    /\ run.completed
    /\ run.exit = 1
    /\ run.state[1] = "DiscoveryFailed"
    /\ \A g \in BatchGroups \ {1} : run.state[g] = "Published"

\* C21: the summarization engine is called at most MaxAttempts times for a
\* group; after a call that failed permanently no further call is made and
\* the group has failed with the error 'permanent'; a group whose
\* summarization failed otherwise has the error 'transient-exhausted' after
\* exactly MaxAttempts calls; a failed group's calls and error stay
C21_RetriesAreBoundedAndOnlyTransient ==
    [][\A g \in BatchGroups :
          /\ run'.engineCalls[g] <= MaxAttempts
          /\ run'.summarizeError[g] = "permanent"
                => /\ run'.state[g] = "SummarizeFailed"
                   /\ run.summarizeError[g] = "permanent"
                         => run'.engineCalls[g] = run.engineCalls[g]
          /\ run'.state[g] = "SummarizeFailed"
                <=> run'.summarizeError[g] \in {"permanent", "transient-exhausted"}
          /\ run'.summarizeError[g] = "transient-exhausted"
                => run'.engineCalls[g] = MaxAttempts
          /\ run.state[g] = "SummarizeFailed"
                => /\ run'.engineCalls[g] = run.engineCalls[g]
                   /\ run'.summarizeError[g] = run.summarizeError[g]]_vars

\* C21 happens: one group failed at its first call, permanently, another
\* after all its attempts failed transiently
C21_Witness ==
    /\ run.summarizeError[1] = "permanent"
    /\ run.engineCalls[1] = 1
    /\ run.summarizeError[2] = "transient-exhausted"
    /\ run.engineCalls[2] = MaxAttempts

(***************************************************************************)
(* Properties of discovery and of the summarizer.                          *)
(***************************************************************************)
\* the day a date YYYY-MM-DD stands for, as a number that grows with the date
DayNumber(d) ==
    LET digit(k) == (CHOOSE i \in 1..10 : Digits[i] = d[k]) - 1
    IN  (digit(1) * 1000 + digit(2) * 100 + digit(3) * 10 + digit(4)) * 372
            + (digit(6) * 10 + digit(7)) * 31
            + digit(9) * 10 + digit(10)

\* the date of a segment name of group g
SegmentDay(g, filename) ==
    DayNumber(SubSeq(filename,
                     Len(groupNameForFile(TARGET_GROUP_NAMES[g]) \o MessagesInfix) + 1,
                     Len(groupNameForFile(TARGET_GROUP_NAMES[g]) \o MessagesInfix) + 10))

\* the segments of group g in a listing
GroupSegments(g, listing) ==
    {f \in listing :
        /\ IsSegmentName(f)
        /\ startsWith(f, groupNameForFile(TARGET_GROUP_NAMES[g]) \o MessagesInfix)}

\* C22: discovery gives every group with segments in the listing its segment
\* of the latest date and every group without segments none, and a second
\* discovery on the same listing gives the same
C22_DiscoveryPicksTheLatestSegment ==
    /\ discovery.latest # <<>>
          => \A g \in BatchGroups :
                IF GroupSegments(g, discovery.listing) = {}
                THEN discovery.latest[g] = <<>>
                ELSE /\ discovery.latest[g] \in GroupSegments(g, discovery.listing)
                     /\ \A f \in GroupSegments(g, discovery.listing) :
                           SegmentDay(g, f) <= SegmentDay(g, discovery.latest[g])
    /\ discovery.again # <<>> => discovery.again = discovery.latest

\* C22 happens: of the first group's segments of 2025-09-25, 26 and 27 the
\* one of 2025-09-27 was discovered, twice, and the second group has none
C22_Witness ==
    /\ {TargetFilePrefixes[1] \o DateOn(day) \o TxtSuffix : day \in {25, 26, 27}}
          \subseteq discovery.listing
    /\ discovery.again # <<>>
    /\ discovery.again[1] = TargetFilePrefixes[1] \o DateOn(27) \o TxtSuffix
    /\ discovery.again[2] = <<>>

\* C23: when the summarizer returns for a path summaries/{slug}-summary.txt,
\* the text of the artifact it returns is the text of that file and the
\* summarization engine was not called
C23_PassThroughKeepsTextAndCallsNothing ==
    [][(/\ ~summarizer.returned
        /\ summarizer'.returned
        /\ endsWith(summarizer.path, SummarySuffix)
        /\ startsWith(summarizer.path, SummariesDirectory \o <<"/">>))
          => /\ summarizer'.text = summarizer.content
             /\ ~summarizer'.error
             /\ summarizer'.engineCalls = summarizer.engineCalls]_vars

\* C23 happens: a summary made by the engine was given to the summarizer
\* again and came back as it was, the engine called once in all
C23_Witness ==
    /\ summarizer.returned
    /\ summarizer.path = SummaryPath(1)
    /\ summarizer.engineCalls = 1
    /\ summarizer.text \in EngineTexts
    /\ summarizer.text = summarizer.content

\* the clicks and events that show or hide the QR section
QrSectionMoves == {"hideClick", "showClick", "ready", "disconnected"}

\* C24: the QR section is hidden when the page has just handled 'ready' and
\* shown when it has just handled 'disconnected', and once the page has
\* handled a hide click, a show click, 'ready' or 'disconnected', the QR
\* section is shown exactly when the show-QR button is hidden
C24_QrSectionAndShowButtonAlternate ==
    LET n == Len(browser.handled) IN
    /\ (n > 0 /\ browser.handled[n] = "ready") => browser.qrSectionHidden
    /\ (n > 0 /\ browser.handled[n] = "disconnected") => ~browser.qrSectionHidden
    /\ (\E k \in 1..n : browser.handled[k] \in QrSectionMoves)
          => (~browser.qrSectionHidden <=> browser.showQrBtnHidden)

\* C24 happens: the page handled 'ready', a show click and then 'disconnected',
\* and the QR section is shown with the show-QR button hidden
C24_Witness ==
    /\ browser.handled = <<"ready", "showClick", "disconnected">>
    /\ ~browser.qrSectionHidden
    /\ browser.showQrBtnHidden

C26_EntryIsTimestampSenderBody ==
    formatted.entry # <<>> =>
        LET c == formatted.contact
            sender == IF c.name # <<>> THEN c.name
                      ELSE IF c.pushname # <<>> THEN c.pushname
                      ELSE IF c.number # <<>> THEN c.number
                      ELSE <<"U","n","k","n","o","w","n">>
            body == IF formatted.body # <<>> THEN formatted.body
                    ELSE <<"[","N","o"," ","t","e","x","t"," ",
                           "c","o","n","t","e","n","t","]">>
        IN  formatted.entry
               = <<"[">> \o toISOString(formatted.at) \o <<"]">> \o <<" ">>
                    \o sender \o <<":">> \o <<" ">> \o body \o <<"\n">>

\* C26 happens: the entry of a message without body from a contact who has
\* only a push name
C26_Witness ==
    /\ formatted.contact = [name |-> <<>>, pushname |-> <<"A","n","n">>,
                            number |-> <<>>]
    /\ formatted.body = <<>>
    /\ endsWith(formatted.entry,
                <<"]"," ","A","n","n",":"," ","[","N","o"," ","t","e","x","t"," ",
                  "c","o","n","t","e","n","t","]","\n">>)

(***************************************************************************)
(* Properties of the session.                                              *)
(***************************************************************************)
\* C27: the socket that connects is sent 'qr' alone when the server holds a
\* QR code, 'ready' alone when it holds none and the WhatsApp client is
\* ready, and nothing otherwise; what the earlier sockets were sent at their
\* connection stays as it was
C27_GreetingIsQrOrReadyOrNothing ==
    [][Len(sockets') > Len(sockets)
         => /\ Len(sockets') = Len(sockets) + 1
            /\ \A k \in 1..Len(sockets) : sockets'[k] = sockets[k]
            /\ LET greeting == sockets'[Len(sockets')].greeting
               IN  /\ qrCodeData # "null" => greeting = <<"qr">>
                   /\ (qrCodeData = "null" /\ isClientReady) => greeting = <<"ready">>
                   /\ (qrCodeData = "null" /\ ~isClientReady) => greeting = <<>>
                   /\ ~({"qr", "ready"} \subseteq Range(greeting))]_vars

\* C27 happens: one socket was sent 'qr' at its connection and a later one
\* 'ready'
C27_Witness ==
    /\ Len(sockets) = 2
    /\ sockets[1].greeting = <<"qr">>
    /\ sockets[2].greeting = <<"ready">>

\* C28: a request whose handler found the WhatsApp client not ready is
\* answered with the error 'WhatsApp client is not ready' and nothing else,
\* has made no call of the client, and no message was sent for it
C28_NotReadyIsRefusedWithoutClientCall ==
    \A k \in 1..Len(requests) :
        ~requests[k].ready
            => /\ requests[k].answers
                    = <<[event |-> "error", text |-> "WhatsApp client is not ready"]>>
               /\ requests[k].clientCalls = 0
               /\ requests[k].sent = 0
               /\ requests[k].pc = "done"

\* C28 happens: a sendMessage and a getChats request have both come while the
\* client was not ready
C28_Witness ==
    \E j, k \in 1..Len(requests) :
        /\ requests[j].kind = "sendMessage"
        /\ requests[k].kind = "getChats"
        /\ ~requests[j].ready
        /\ ~requests[k].ready
        /\ requests[j].answers = <<NotReadyError>>

\* C29: a sendMessage request has at no time more than one answer, its
\* answer is 'messageSent' or 'error', an answer given stays, and every
\* sendMessage request is answered in the end
C29_SendMessageIsAnsweredOnce ==
    /\ [](\A k \in 1..Len(requests) :
            requests[k].kind = "sendMessage"
               => /\ Len(requests[k].answers) <= 1
                  /\ \A a \in 1..Len(requests[k].answers) :
                        requests[k].answers[a].event \in {"messageSent", "error"}
                  /\ requests[k].pc = "done" <=> Len(requests[k].answers) = 1)
    /\ [][\A k \in 1..Len(requests) :
            requests[k].answers # <<>> => requests'[k] = requests[k]]_vars
    /\ \A k \in 1..MaxRequests :
          (Len(requests) >= k /\ requests[k].kind = "sendMessage")
             ~> (Len(requests) >= k /\ Len(requests[k].answers) = 1)

\* C29 happens: one sendMessage request was answered 'messageSent' and one
\* with the error of the catch block after client.sendMessage rejected
C29_Witness ==
    \E j, k \in 1..Len(requests) :
        /\ requests[j].answers = <<[event |-> "messageSent", text |-> "true"]>>
        /\ requests[k].answers = <<SendFailedError>>
        /\ requests[k].clientCalls = 1

\* C30: a sendMessage request answered with 'error' has had no message sent
C30_ErrorMeansNothingWasSent ==
    \A k \in 1..Len(requests) :
        (/\ requests[k].kind = "sendMessage"
         /\ \E a \in 1..Len(requests[k].answers) : requests[k].answers[a].event = "error")
            => requests[k].sent = 0

\* C31: the status query never reports hasQR = true together with
\* isReady = true
C31_NeverQrAndReady ==
    ~(apiStatus.hasQR /\ apiStatus.isReady)

\* C32: clientInfo is not null only while the WhatsApp client is ready
C32_ClientInfoOnlyWhileReady ==
    clientInfo # "null" => isClientReady

\* C33: every 'ready' a socket was sent, at its connection or by broadcast,
\* carried client info that is not null
C33_ReadyCarriesClientInfo ==
    \A k \in 1..Len(sockets) :
        /\ sockets[k].greeting = <<"ready">> => sockets[k].clientInfo # "null"
        /\ "null" \notin sockets[k].broadcast

(***************************************************************************)
(* Properties that tie message logging to the query routes and the clock.  *)
(***************************************************************************)
\* C34: every file of the log directory has a name that starts with
\* `{slug}-messages-` for the slug of a configured group, is listed by the
\* status summary's filter and passes the name validation of the content
\* query
C34_WrittenSegmentsAreVisible ==
    \A name \in readdir(files, LOG_DIRECTORY) :
        /\ \E g \in 1..Len(TARGET_GROUP_NAMES) :
              startsWith(name, groupNameForFile(TARGET_GROUP_NAMES[g]) \o MessagesInfix)
        /\ isTargetLogFile(name)
        /\ isValidLogFile(name)

\* the date YYYY-MM-DD that the name of a segment path ends with, before '.txt'
DateOfPath(p) == SubSeq(p, Len(p) - Len(TxtSuffix) - 9, Len(p) - Len(TxtSuffix))

\* the date YYYY-MM-DD of the timestamp an entry `[timestamp] ...` begins with
DateOfEntry(text) == SubSeq(text, 2, 11)

\* C35: every entry of a file of the log directory has a timestamp of the
\* date in the file's name
C35_LinesBearTheDateOfTheirSegment ==
    \A p \in DOMAIN files \ {NotesPath} :
        \A k \in 1..Len(files[p].writes) :
            DateOfEntry(files[p].writes[k].text) = DateOfPath(p)

\* the instant of the timestamp an entry begins with
InstantOfEntry(text) ==
    CHOOSE t \in 0..MaxClock : startsWith(text, <<"[">> \o toISOString(t) \o <<"]">>)

\* C36: in every file of the log directory the timestamps of the entries do
\* not decrease in the order of the file
C36_TimestampsDoNotDecrease ==
    \A p \in DOMAIN files \ {NotesPath} :
        \A j, k \in 1..Len(files[p].writes) :
            j < k => InstantOfEntry(files[p].writes[j].text)
                        <= InstantOfEntry(files[p].writes[k].text)
====
